---- MODULE Spec2Model ----
(***************************************************************************)
(* A model of src/src/certdb.c (pesign): the EFI security database         *)
(* loader (add_db_file, init_cert_db), the signature-list walk (check_db)  *)
(* with the hash predicate (check_hash), and the certificate predicate     *)
(* (check_cert, find_cert_times).                                          *)
(*                                                                         *)
(* Memory is modelled by bytes: a source's data is the sequence of bytes   *)
(* that are really allocated at db->data, and a structure field is decoded *)
(* from its bytes (little endian, as on the x86 and arm64 builds).         *)
(* size_t values are kept as their two's-complement residue: a small       *)
(* negative number n stands for 2^64 + n, and ULt/UGe compare as unsigned. *)
(* A read outside the allocated bytes and a division by zero are undefined *)
(* behaviour: the model branches over a trap ("crash") and the garbage     *)
(* values the read or the division can produce.                            *)
(***************************************************************************)
EXTENDS Integers, Sequences, FiniteSets, TLC

\* ------------------------------------------------------------------ bounds
\* Most sources that are ever loaded into the two chains together.
MaxSources == 2
\* Longest raw certificate handed to add_cert_file.
MaxCertLen == 13
\* Bytes past the allocated ones that a read may still reach without a trap
\* (the rest of the mapping's last page); a read further out always traps.
MaxSlack == 44
\* Times carried by embedded certificates and signing times: 0..MaxTime.
MaxTime == 3
\* Most certificates embedded in one signed-data message.
MaxEmbedded == 2
\* Most invocations of check_cert in one search.
MaxCandidates == 2

\* ------------------------------------------------------- program constants
\* sizeof(EFI_SIGNATURE_LIST): a 16 byte type GUID and three UINT32 fields.
SizeofSigList == 28
\* sizeof(efi_guid_t): also the SignatureOwner in front of every payload.
SizeofGuid == 16
\* The EFI attributes in front of a firmware variable's data.
EfiAttrLen == 4
\* Bytes of a payload compared with the SHA-256 and the SHA-1 digest.
Sha256Len == 32
Sha1Len == 20

\* The largest integer of the checker; an unsigned long larger than this is
\* kept saturated (only compared with the small loop counter i).
CountSat == 32767 * 65536 + 65535

\* ------------------------------------------------------------------- bytes
Min(a, b) == IF a < b THEN a ELSE b
Max(a, b) == IF a < b THEN b ELSE a

Zeros(n) == [k \in 1..n |-> 0]

\* A UINT32 in memory, little endian.
LE32(v) == << v % 256, (v \div 256) % 256, (v \div 65536) % 256, v \div 16777216 >>

\* An out-of-bounds read at data + off may give garbage instead of a trap.
InSlack(data, off) == off >= 0 /\ off < Len(data) + MaxSlack

\* The bytes data[off .. off+n-1] (offsets from 0) are allocated.
Readable(data, off, n) == off >= 0 /\ off + n <= Len(data)

Bytes(data, off, n) == SubSeq(data, off + 1, off + n)

RdU32(data, off) ==
    data[off + 1] + 256 * data[off + 2] + 65536 * data[off + 3] + 16777216 * data[off + 4]

\* size_t comparisons on residues: a negative residue is a value near 2^64.
ULt(a, b) ==
    IF (a < 0) = (b < 0) THEN a < b ELSE b < 0

UGe(a, b) == ~ULt(a, b)

\* (2^32 - d) / s for 1 <= d, 1 <= s < 2^15, by long division in base 2^16,
\* saturated at CountSat.
WrapDiv(d, s) ==
    LET hi == 65535 - ((d - 1) \div 65536)
        lo == 65535 - ((d - 1) % 65536)
        q1 == hi \div s
        r1 == hi % s
        q2 == (r1 * 65536 + lo) \div s
    IN  IF q1 >= 32767 THEN CountSat ELSE q1 * 65536 + q2

\* (a - b) / s in UINT32 arithmetic, s > 0.
U32SubDiv(a, b, s) ==
    IF a >= b THEN (a - b) \div s ELSE WrapDiv(b - a, s)

\* ------------------------------------------------------------------- GUIDs
\* The type GUIDs are told apart by their first byte.
Guid(n) == [k \in 1..SizeofGuid |-> IF k = 1 THEN n ELSE 0]

efi_guid_sha256 == Guid(193)
efi_guid_sha1 == Guid(18)
efi_guid_x509_cert == Guid(161)
\* A type no predicate knows.
GuidOther == Guid(7)
\* The SignatureOwner of the entries.
GuidOwner == Guid(9)

\* ------------------------------------------------------------- the artifact
\* ctx->cms_ctx->digests[0] and [1]: the SHA-256 and SHA-1 digest of the binary.
Sha256Digest == [k \in 1..Sha256Len |-> k]
Sha1Digest == [k \in 1..Sha1Len |-> 100 + k]

\* seq with its byte k changed.
FlipByte(seq, k) == [seq EXCEPT ![k] = (@ + 1) % 256]

\* ------------------------------------------------------------------- files
SigList(type, sls, shs, ss, body) == type \o LE32(sls) \o LE32(shs) \o LE32(ss) \o body

Entry(payload) == GuidOwner \o payload

\* A well-formed list of one group: its total size is the header and the entries.
GoodList(type, entries) ==
    LET ss == Len(entries[1])
    IN  SigList(type, SizeofSigList + Len(entries) * ss, 0, ss,
                IF Len(entries) = 1 THEN entries[1] ELSE entries[1] \o entries[2])

FileSha256Match == GoodList(efi_guid_sha256, << Entry(Sha256Digest) >>)
FileSha256FlipFirst == GoodList(efi_guid_sha256, << Entry(FlipByte(Sha256Digest, 1)) >>)
FileSha256FlipLast == GoodList(efi_guid_sha256, << Entry(FlipByte(Sha256Digest, Sha256Len)) >>)
FileSha1Match == GoodList(efi_guid_sha1, << Entry(Sha1Digest) >>)
\* Two groups: an unknown type with two small entries, then the matching hash.
FileTwoGroups ==
    GoodList(GuidOther, << Entry(<<1, 2, 3, 4>>), Entry(<<5, 6, 7, 8>>) >>) \o FileSha256Match
\* Two entries, the second matches.
FileSecondMatch ==
    GoodList(efi_guid_sha256, << Entry(FlipByte(Sha256Digest, 3)), Entry(Sha256Digest) >>)
\* A well-formed group with vendor padding: total size 8 past its one entry.
FilePadded ==
    SigList(GuidOther, SizeofSigList + 48 + 8, 0, 48, Entry(Sha256Digest) \o Zeros(8))
        \o FileSha1Match
\* SignatureSize = 0.
FileZeroEntrySize == SigList(efi_guid_sha256, 76, 0, 0, Entry(Sha256Digest))
\* SignatureHeaderSize > SignatureListSize.
FileHeaderSkipTooBig == SigList(GuidOther, 76, 80, 48, Entry(Sha256Digest))
\* SignatureListSize = 0.
FileZeroListSize == SigList(GuidOther, 0, 0, 48, Entry(Sha256Digest))
\* SignatureListSize smaller than the header itself.
FileTinyListSize == SigList(GuidOther, 4, 0, 48, Entry(Sha256Digest))
\* A trailing group that declares more than what is left.
FileTruncated ==
    GoodList(efi_guid_sha1, << Entry(FlipByte(Sha1Digest, Sha1Len)) >>)
        \o SigList(efi_guid_sha256, 76, 0, 48, Entry(Sha1Digest))
\* Shorter than a group header.
FileOneByte == << 1 >>
\* A hash entry whose payload is shorter than the digest, at the end of the file.
FileShortPayload == SigList(efi_guid_sha256, 28 + 20, 0, 20, Entry(<<9, 9, 9, 9>>))

\* The files add_cert_db is given.
ListFiles ==
    { FileSha256Match, FileSha256FlipFirst, FileSha256FlipLast, FileSha1Match,
      FileTwoGroups, FileSecondMatch, FilePadded,
      FileZeroEntrySize, FileHeaderSkipTooBig, FileZeroListSize, FileTinyListSize,
      FileTruncated, FileOneByte, FileShortPayload }

\* The files add_cert_dbx is given.
DenyFiles == { FileSha256Match, FileSha1Match, FileSha256FlipLast, FileZeroEntrySize }

\* A raw certificate of length L: the bytes 201, 202, ...
RawCert(L) == [k \in 1..L |-> 200 + k]

\* The raw certificates add_cert_file is given: of one byte, of as many bytes as
\* the header is longer than an owner GUID, and the longest.
CertFiles == { RawCert(L) : L \in { 1, SizeofSigList - SizeofGuid, MaxCertLen } }

\* A firmware variable: the EFI attributes (7) and the data.
EfiVar(body) == << 7, 0, 0, 0 >> \o body

EfiVarFiles == { << 7, 0, 0 >>, EfiVar(<< >>), EfiVar(FileSha256Match) }


\* ------------------------------------------------------------------- state
VARIABLES
    db,          \* ctx->db: the allow chain, its head first
    dbx,         \* ctx->dbx: the deny chain, its head first
    bootpc,      \* where init_cert_db stands
    use_system_dbs, \* init_cert_db's argument, once it is called
    bootlog,     \* the calls init_cert_db has made: <<which, path, rc, errno>>
    pc,          \* where check_db stands
    which,       \* check_db: the chain searched
    dbl,         \* check_db: the source walked, as its position in the chain
    certlist,    \* check_db: the group header, as its offset from dbl->data
    cert,        \* check_db: the entry, as its offset from dbl->data
    dbsize,      \* check_db: what is left of the source
    hdr,         \* the fields of *certlist as the walk read them
    certcount,   \* check_db: the entries of the group
    i,           \* check_db: the entry loop's counter
    ret,         \* what check_db returned
    ncalls,      \* calls of the predicate for the group walked
    consumed,    \* the total sizes subtracted from dbsize for the source walked
    sigtag,      \* the type the last call of the predicate saw
    siglen,      \* sig.len of the last call of the predicate
    hdrOob,      \* a header field was read outside the allocated bytes
    sigOob,      \* a payload handed to the predicate is not inside the allocated bytes
    cc           \* check_cert: one invocation's locals and the live library objects

vars ==
    << db, dbx, bootpc, use_system_dbs, bootlog, pc, which, dbl, certlist, cert, dbsize, hdr,
       certcount, i, ret, ncalls, consumed, sigtag, siglen, hdrOob, sigOob, cc >>

walkVars ==
    << pc, which, dbl, certlist, cert, dbsize, hdr, certcount, i, ret, ncalls, consumed,
       sigtag, siglen, hdrOob, sigOob >>

\* ---------------------------------------------------------------- add_db_file
Errnos == { "ENOENT", "EACCES" }

\* case DB_CERT: the list built around the raw certificate in map.
CertData(map) ==
    LET datalen == Len(map) + SizeofSigList + SizeofGuid
    IN  SigList(efi_guid_x509_cert, datalen, 0, Len(map) + SizeofGuid,
                Zeros(SizeofGuid) \o map)

\* The switch on type: db->data and db->datalen from db->map and db->size.
\* A firmware variable shorter than its attributes gets data past the end of
\* the map, where nothing is allocated, and the wrapped length size - 4.
NewSource(type, map) ==
    CASE type = "DB_FILE" ->
            [ type |-> type, map |-> map, size |-> Len(map), data |-> map,
              datalen |-> Len(map) ]
      [] type = "DB_EFIVAR" ->
            [ type |-> type, map |-> map, size |-> Len(map),
              data |-> IF Len(map) >= EfiAttrLen
                       THEN SubSeq(map, EfiAttrLen + 1, Len(map)) ELSE << >>,
              datalen |-> Len(map) - EfiAttrLen ]
      [] type = "DB_CERT" ->
            [ type |-> type, map |-> map, size |-> Len(map), data |-> CertData(map),
              datalen |-> Len(map) + SizeofSigList + SizeofGuid ]

\* add_db_file succeeds on a file holding map (it returns 0 and leaves errno
\* 0): the source becomes the head of the chain.
AddOk(w, type, map) ==
    /\ Len(db) + Len(dbx) < MaxSources
    /\ db' = IF w = "DB" THEN << NewSource(type, map) >> \o db ELSE db
    /\ dbx' = IF w = "DBX" THEN << NewSource(type, map) >> \o dbx ELSE dbx

\* add_db_file returns -1 with errno set: calloc, open, strdup, fstat or
\* read_file failed. Everything it had allocated is freed: the chains are as
\* they were.
AddFail == UNCHANGED << db, dbx >>

\* The process does no more: exit(1) or a trap.
Dead == bootpc = "exit" \/ pc = "crash"

CanLoad == ~Dead /\ pc = "idle" /\ bootpc \in { "idle", "done" }

add_cert_db ==
    /\ CanLoad
    /\ \/ \E map \in ListFiles : AddOk("DB", "DB_FILE", map)
       \/ AddFail
    /\ UNCHANGED << bootpc, use_system_dbs, bootlog, cc >>
    /\ UNCHANGED walkVars

add_cert_dbx ==
    /\ CanLoad
    /\ \/ \E map \in DenyFiles : AddOk("DBX", "DB_FILE", map)
       \/ AddFail
    /\ UNCHANGED << bootpc, use_system_dbs, bootlog, cc >>
    /\ UNCHANGED walkVars

add_cert_file ==
    /\ CanLoad
    /\ \/ \E map \in CertFiles : AddOk("DB", "DB_CERT", map)
       \/ AddFail
    /\ UNCHANGED << bootpc, use_system_dbs, bootlog, cc >>
    /\ UNCHANGED walkVars

\* --------------------------------------------------------------- init_cert_db
DB_PATH == "db"
MOK_PATH == "MokListRT"
DBX_PATH == "dbx"
MOKX_PATH == "MokListXRT"

\* The four loads: the chain, the path, and where init_cert_db goes next.
BootStep(at) ==
    CASE at = "db" -> [ which |-> "DB", path |-> DB_PATH, next |-> "mok" ]
      [] at = "mok" -> [ which |-> "DB", path |-> MOK_PATH, next |-> "dbx" ]
      [] at = "dbx" -> [ which |-> "DBX", path |-> DBX_PATH, next |-> "mokx" ]
      [] at = "mokx" -> [ which |-> "DBX", path |-> MOKX_PATH, next |-> "done" ]

\* A test that forgets errno: every failed load ends the process.
BootFatalAnyFailure(rc, e) == rc < 0

\* if (rc < 0 && errno != ENOENT) exit(1);
BootFatal(rc, e) == rc < 0 /\ e # "ENOENT"

\* init_cert_db is entered: if (!use_system_dbs) return;
init_cert_db(use) ==
    /\ ~Dead
    /\ pc = "idle"
    /\ bootpc = "idle"
    /\ use_system_dbs' = use
    /\ bootpc' = IF use THEN "db" ELSE "done"
    /\ UNCHANGED << db, dbx, bootlog, cc >>
    /\ UNCHANGED walkVars

\* One rc = add_db_file(ctx, which, path, DB_EFIVAR) and the test that follows.
init_load ==
    /\ bootpc \in { "db", "mok", "dbx", "mokx" }
    /\ LET st == BootStep(bootpc)
       IN  \/ \E map \in EfiVarFiles :
                /\ AddOk(st.which, "DB_EFIVAR", map)
                /\ bootlog' = Append(bootlog, << st.which, st.path, 0, "0" >>)
                /\ bootpc' = st.next
           \/ \E e \in Errnos :
                /\ AddFail
                /\ bootlog' = Append(bootlog, << st.which, st.path, -1, e >>)
                /\ bootpc' = IF BootFatal(-1, e) THEN "exit" ELSE st.next
    /\ UNCHANGED << use_system_dbs, cc >>
    /\ UNCHANGED walkVars


\* ------------------------------------------------------------------- check_db
\* dblist *dbl = which == DB ? ctx->db : ctx->dbx;
Chain(w) == IF w = "DB" THEN db ELSE dbx

\* What an out-of-bounds read of a UINT32 can give, when it does not trap.
GarbageU32 == { 0, 40 }
Trap == 0 - 1

\* The values a read of the UINT32 at data + off can give: the field when its
\* bytes are allocated; otherwise a trap or, in the slack, garbage.
RdField(data, off) ==
    IF Readable(data, off, 4) THEN { RdU32(data, off) }
    ELSE { Trap } \cup (IF InSlack(data, off) THEN GarbageU32 ELSE { })

\* while (dbsize > 0 && dbsize >= certlist->SignatureListSize)
WhileCond(size, sls) == size # 0 /\ UGe(size, sls)

\* A walk that takes the header itself off the total size.
CertCountNoHeader(sls, shs, ss) == U32SubDiv(sls, shs + SizeofSigList, ss)

\* certcount = (SignatureListSize - SignatureHeaderSize) / SignatureSize, ss > 0.
CertCount(sls, shs, ss) == U32SubDiv(sls, shs, ss)

\* What the division gives: by zero it traps (x86) or gives 0 (arm64).
CertCounts(sls, shs, ss) ==
    IF ss = 0 THEN { Trap, 0 } ELSE { CertCount(sls, shs, ss) }

\* cert = (uint8_t *)certlist + sizeof(EFI_SIGNATURE_LIST) + SignatureHeaderSize
FirstCert(off, shs) == off + SizeofSigList + shs

\* sig.data = cert->SignatureData: the payload follows the SignatureOwner.
SigData(c) == c + SizeofGuid

\* sig.len = certlist->SignatureSize - sizeof(efi_guid_t)
SigLen(ss) == ss - SizeofGuid

\* dbsize -= certlist->SignatureListSize
Advance(size, sls) == size - sls

\* The payload [off, off + len) lies in the allocated bytes of data.
PayloadInside(data, off, len) == len >= 0 /\ Readable(data, off, len)

\* check_db_hash(which, ctx): check_db is entered with the hash predicate.
check_db_hash(w) ==
    /\ ~Dead
    /\ bootpc = "done"
    /\ pc \in { "idle", "ret" }
    /\ pc' = "source"
    /\ which' = w
    /\ dbl' = 1
    /\ ret' = "NONE"
    /\ certlist' = 0 /\ cert' = 0 /\ dbsize' = 0 /\ certcount' = 0 /\ i' = 0
    /\ hdr' = [ sls |-> 0, shs |-> 0, ss |-> 0 ]
    /\ ncalls' = 0 /\ consumed' = 0 /\ sigtag' = "none" /\ siglen' = 0
    /\ hdrOob' = FALSE /\ sigOob' = FALSE
    /\ UNCHANGED << db, dbx, bootpc, use_system_dbs, bootlog, cc >>

\* while (dbl): the next source is entered, or the chain is exhausted.
walk_source ==
    /\ pc = "source"
    /\ IF dbl > Len(Chain(which))
       THEN /\ pc' = "ret"
            /\ ret' = "NOT_FOUND"
            /\ UNCHANGED << dbsize, certlist, consumed >>
       ELSE /\ pc' = "head"
            /\ dbsize' = Chain(which)[dbl].datalen
            /\ certlist' = 0
            /\ consumed' = 0
            /\ UNCHANGED ret
    /\ UNCHANGED << db, dbx, bootpc, use_system_dbs, bootlog, cc, which, dbl, cert, hdr, certcount, i,
                    ncalls, sigtag, siglen, hdrOob, sigOob >>

\* The inner loop leaves the source: dbl = dbl->next.
LeaveSource ==
    /\ pc' = "source"
    /\ dbl' = dbl + 1
    /\ UNCHANGED << hdr, certcount, cert, i, ncalls >>

\* The inner while's test and, when it holds, the body up to the entry loop.
walk_head ==
    /\ pc = "head"
    /\ LET data == Chain(which)[dbl].data
       IN  IF dbsize = 0
           THEN LeaveSource /\ UNCHANGED hdrOob
           ELSE \E sls \in RdField(data, certlist + 16) :
                /\ hdrOob' = (hdrOob \/ ~Readable(data, certlist + 16,
                                  IF sls # Trap /\ WhileCond(dbsize, sls) THEN 12 ELSE 4))
                /\ IF sls = Trap
                   THEN pc' = "crash" /\ UNCHANGED << dbl, hdr, certcount, cert, i, ncalls >>
                   ELSE IF ~WhileCond(dbsize, sls)
                   THEN LeaveSource
                   ELSE \E shs \in RdField(data, certlist + 20), ss \in RdField(data, certlist + 24) :
                        IF shs = Trap \/ ss = Trap
                        THEN pc' = "crash" /\ UNCHANGED << dbl, hdr, certcount, cert, i, ncalls >>
                        ELSE \E n \in CertCounts(sls, shs, ss) :
                             /\ hdr' = [ sls |-> sls, shs |-> shs, ss |-> ss ]
                             /\ pc' = IF n = Trap THEN "crash" ELSE "entry"
                             /\ certcount' = IF n = Trap THEN certcount ELSE n
                             /\ cert' = FirstCert(certlist, shs)
                             /\ i' = 0
                             /\ ncalls' = 0
                             /\ UNCHANGED dbl
    /\ UNCHANGED << db, dbx, bootpc, use_system_dbs, bootlog, cc, which, certlist, dbsize, ret,
                    consumed, sigtag, siglen, sigOob >>

\* ----------------------------------------------------------------- check_hash
TagOf(guid) ==
    CASE guid = efi_guid_sha256 -> "sha256"
      [] guid = efi_guid_sha1 -> "sha1"
      [] guid = efi_guid_x509_cert -> "x509"
      [] OTHER -> "other"

\* The types memcmp(sigtype, ...) can see at data + off.
SigTypes(data, off) ==
    IF Readable(data, off, SizeofGuid) THEN { TagOf(Bytes(data, off, SizeofGuid)) }
    ELSE { "trap" } \cup (IF InSlack(data, off) THEN { "sha256", "sha1", "other" } ELSE { })

\* memcmp(digest, sig->data, n) == 0 at data + off: the comparison when the n
\* bytes are allocated; otherwise a trap or what the allocated part decides,
\* and either answer when the allocated part agrees with the digest.
DigestEq(data, off, digest) ==
    LET n == Len(digest)
        have == IF off >= Len(data) \/ off < 0 THEN 0 ELSE Min(n, Len(data) - off)
    IN  IF Readable(data, off, n)
        THEN { IF Bytes(data, off, n) = digest THEN "eq" ELSE "ne" }
        ELSE { "trap" } \cup
             (IF ~InSlack(data, off) THEN { }
              ELSE IF Bytes(data, off, have) = SubSeq(digest, 1, have)
                   THEN { "eq", "ne" } ELSE { "ne" })

\* if (memcmp(...) == 0) return FOUND; ... return NOT_FOUND;
HashResult(r) == CASE r = "trap" -> "trap" [] r = "eq" -> "FOUND" [] r = "ne" -> "NOT_FOUND"

\* check_hash on the payload at data + off of a group of type tag.
check_hash(data, off, tag) ==
    IF tag = "trap" THEN { "trap" }
    ELSE IF tag = "sha256"
    THEN { HashResult(r) : r \in DigestEq(data, off, Sha256Digest) }
    ELSE IF tag = "sha1"
    THEN { HashResult(r) : r \in DigestEq(data, off, Sha1Digest) }
    ELSE { "NOT_FOUND" }

\* One turn of for (i = 0; i < certcount; i++): the predicate is called on the
\* entry at cert. Past the slack the turns that are left read nothing when the
\* type is not a hash (they are taken at once) and trap when it is.
walk_entry ==
    /\ pc = "entry"
    /\ i < certcount
    /\ LET data == Chain(which)[dbl].data
       IN  \E tag \in SigTypes(data, certlist) :
           \E found \in check_hash(data, SigData(cert), tag) :
           /\ sigtag' = tag
           /\ siglen' = SigLen(hdr.ss)
           /\ sigOob' = (sigOob \/ ~PayloadInside(data, SigData(cert), SigLen(hdr.ss)))
           /\ IF found = "trap"
              THEN pc' = "crash" /\ UNCHANGED << ret, cert, i, ncalls >>
              ELSE IF found = "FOUND"
              THEN /\ pc' = "ret"
                   /\ ret' = "FOUND"
                   /\ ncalls' = ncalls + 1
                   /\ UNCHANGED << cert, i >>
              ELSE IF ~InSlack(data, cert)
              THEN /\ i' = certcount
                   /\ ncalls' = certcount
                   /\ UNCHANGED << pc, ret, cert >>
              ELSE /\ cert' = cert + hdr.ss
                   /\ i' = i + 1
                   /\ ncalls' = ncalls + 1
                   /\ UNCHANGED << pc, ret >>
    /\ UNCHANGED << db, dbx, bootpc, use_system_dbs, bootlog, cc, which, dbl, certlist, dbsize, hdr,
                    certcount, consumed, hdrOob >>

\* The entry loop is over: dbsize and certlist move past the group.
walk_advance ==
    /\ pc = "entry"
    /\ ~(i < certcount)
    /\ pc' = "head"
    /\ dbsize' = Advance(dbsize, hdr.sls)
    /\ certlist' = certlist + hdr.sls
    /\ consumed' = consumed + hdr.sls
    /\ UNCHANGED << db, dbx, bootpc, use_system_dbs, bootlog, cc, which, dbl, cert, hdr, certcount, i,
                    ret, ncalls, sigtag, siglen, hdrOob, sigOob >>

\* ----------------------------------------------------------- find_cert_times
\* PRTime is a 64 bit count of microseconds; the model keeps the order of the
\* times only. 0x7fffffffffffffff and 0x7fffffffffff are the two values above
\* every time a certificate or a signing time carries.
PRTimeMax == MaxTime + 2
NaDefault == MaxTime + 1
Times == 0..MaxTime

\* What CERT_GetCertTimes leaves in (nb, na) for one imported certificate: the
\* certificate's validity, or, when it fails, the initial nb = 0, na = NaDefault.
CertTimes == (Times \X Times) \cup { << 0, NaDefault >> }

\* The lists of at most n embedded certificates, each by its (nb, na).
RECURSIVE CertLists(_)
CertLists(n) ==
    IF n = 0 THEN { << >> }
    ELSE CertLists(n - 1) \cup
         { Append(l, c) : l \in { x \in CertLists(n - 1) : Len(x) = n - 1 }, c \in CertTimes }

\* if (*notBefore < nb) *notBefore = nb;
FoldBefore(notBefore, nb) == IF notBefore < nb THEN nb ELSE notBefore
\* if (*notAfter > na) *notAfter = na;
FoldAfter(notAfter, na) == IF notAfter > na THEN na ELSE notAfter

\* The for loop over the imported certificates, from certs[k] on.
RECURSIVE FoldCerts(_, _, _)
FoldCerts(certs, k, w) ==
    IF k > Len(certs) THEN w
    ELSE FoldCerts(certs, k + 1,
                   << FoldBefore(w[1], certs[k][1]), FoldAfter(w[2], certs[k][2]) >>)

\* find_cert_times(cinfo, &notBefore, &notAfter). ok is FALSE on the err path:
\* the content is no signed data, there is no default certificate database, or
\* CERT_ImportCerts fails. The imported array is destroyed before it returns.
find_cert_times(ok, certs, notBefore, notAfter) ==
    IF ~ok THEN << 0, PRTimeMax >>
    ELSE FoldCerts(certs, 1, << notBefore, notAfter >>)

\* ----------------------------------------------------------------- check_cert
\* The comparison turned around: the lower bound is moved down to atTime.
SigningEarlyFlipped(earlyNow, atTime) == IF earlyNow > atTime THEN atTime ELSE earlyNow

\* if (earlyNow < atTime) earlyNow = atTime;
SigningEarly(earlyNow, atTime) == IF earlyNow < atTime THEN atTime ELSE earlyNow
\* if (lateNow > atTime) lateNow = atTime;
SigningLate(lateNow, atTime) == IF lateNow > atTime THEN atTime ELSE lateNow

\* atTime = earlyNow / 2 + lateNow / 2;
Midpoint(earlyNow, lateNow) == (earlyNow \div 2) + (lateNow \div 2)

\* The statements at out: what is destroyed of the live library objects, by the
\* pointers the invocation still holds.
Released(c) ==
    (IF c.cinfo # "NULL" THEN { c.cinfo } ELSE { })
      \cup (IF c.cert # "NULL" THEN { "cert" } ELSE { })
      \cup (IF c.pk11ctx # "NULL" THEN { "pk11ctx" } ELSE { })
      \cup (IF c.digest # "NULL" THEN { "digest" } ELSE { })

CcIdle ==
    [ pc |-> "idle", n |-> 0, cinfo |-> "NULL", cert |-> "NULL", pk11ctx |-> "NULL",
      digest |-> "NULL", status |-> "NOT_FOUND", atTime |-> 0, earlyNow |-> 0,
      lateNow |-> PRTimeMax, notBefore |-> 0, notAfter |-> PRTimeMax, eTime |-> "NULL",
      live |-> { } ]

othersUnchanged ==
    /\ UNCHANGED << db, dbx, bootpc, use_system_dbs, bootlog >>
    /\ UNCHANGED walkVars

\* goto out
GotoOut(c) == [ c EXCEPT !.pc = "out" ]

\* check_cert is called on a candidate: the locals are initialised and the type
\* is tested. now is PR_Now().
cc_call(x509, now) ==
    /\ cc.pc \in { "idle", "returned", "crashed" }
    /\ cc.n < MaxCandidates
    /\ cc' = [ CcIdle EXCEPT !.n = cc.n + 1, !.atTime = now,
                             !.pc = IF x509 THEN "decode1" ELSE "returned" ]
    /\ othersUnchanged

\* cinfo = SEC_PKCS7DecodeItem(pkcs7sig, ...); if (!cinfo) goto out;
cc_decode1(ok) ==
    /\ cc.pc = "decode1"
    /\ cc' = IF ok
             THEN [ cc EXCEPT !.pc = "times", !.cinfo = "cinfo1", !.live = @ \cup { "cinfo1" } ]
             ELSE GotoOut(cc)
    /\ othersUnchanged

\* notBefore = earlyNow ... if (lateNow > notAfter) lateNow = notAfter;
cc_times(ok, certs) ==
    /\ cc.pc = "times"
    /\ LET w == find_cert_times(ok, certs, cc.earlyNow, cc.lateNow)
       IN  cc' = [ cc EXCEPT !.pc = "sigtime", !.notBefore = w[1], !.notAfter = w[2],
                             !.earlyNow = IF cc.earlyNow < w[1] THEN w[1] ELSE cc.earlyNow,
                             !.lateNow = IF cc.lateNow > w[2] THEN w[2] ELSE cc.lateNow ]
    /\ othersUnchanged

\* eTime = SEC_PKCS7GetSigningTime(cinfo): the message carries no signing time.
cc_no_signing_time ==
    /\ cc.pc = "sigtime"
    /\ cc' = [ cc EXCEPT !.pc = "midpoint", !.eTime = "NULL" ]
    /\ othersUnchanged

\* DER_DecodeTimeChoice(&atTime, eTime) fails.
cc_bad_signing_time ==
    /\ cc.pc = "sigtime"
    /\ cc' = [ cc EXCEPT !.pc = "midpoint", !.eTime = "bad" ]
    /\ othersUnchanged

\* DER_DecodeTimeChoice(&atTime, eTime) gives t: both bounds are tightened.
cc_signing_time(t) ==
    /\ cc.pc = "sigtime"
    /\ cc' = [ cc EXCEPT !.pc = "midpoint", !.eTime = "ok", !.atTime = t,
                         !.earlyNow = SigningEarly(cc.earlyNow, t),
                         !.lateNow = SigningLate(cc.lateNow, t) ]
    /\ othersUnchanged

\* atTime = earlyNow / 2 + lateNow / 2;
cc_midpoint ==
    /\ cc.pc = "midpoint"
    /\ cc' = [ cc EXCEPT !.pc = "decode2", !.atTime = Midpoint(cc.earlyNow, cc.lateNow) ]
    /\ othersUnchanged

\* cinfo = SEC_PKCS7DecodeItem(pkcs7sig, ...) again, over the first cinfo.
cc_decode2(ok) ==
    /\ cc.pc = "decode2"
    /\ cc' = IF ok
             THEN [ cc EXCEPT !.pc = "digest", !.cinfo = "cinfo2", !.live = @ \cup { "cinfo2" } ]
             ELSE [ cc EXCEPT !.pc = "out", !.cinfo = "NULL" ]
    /\ othersUnchanged

\* digest = SECITEM_AllocItem(NULL, NULL, 32); if (digest == NULL) goto out;
cc_digest(ok) ==
    /\ cc.pc = "digest"
    /\ cc' = IF ok
             THEN [ cc EXCEPT !.pc = "oid", !.digest = "digest", !.live = @ \cup { "digest" } ]
             ELSE GotoOut(cc)
    /\ othersUnchanged

\* oid = SECOID_FindOIDByTag(SEC_OID_SHA256); if (oid == NULL) goto out;
cc_oid(ok) ==
    /\ cc.pc = "oid"
    /\ cc' = IF ok THEN [ cc EXCEPT !.pc = "context" ] ELSE GotoOut(cc)
    /\ othersUnchanged

\* pk11ctx = PK11_CreateDigestContext(oid->offset); if (ctx == NULL) goto out;
\* The test is on ctx, which is not NULL: a NULL pk11ctx goes on.
cc_context(ok) ==
    /\ cc.pc = "context"
    /\ cc' = IF ok
             THEN [ cc EXCEPT !.pc = "begin", !.pk11ctx = "pk11ctx",
                              !.live = @ \cup { "pk11ctx" } ]
             ELSE [ cc EXCEPT !.pc = "begin" ]
    /\ othersUnchanged

\* PK11_DigestBegin, PK11_DigestOp and PK11_DigestFinal, each != SECSuccess
\* goes to out. On a NULL pk11ctx the library fails or traps.
cc_digest_ops(ok) ==
    /\ cc.pc \in { "begin", "op", "final" }
    /\ ok => cc.pk11ctx # "NULL"
    /\ cc' = IF ok
             THEN [ cc EXCEPT !.pc = CASE cc.pc = "begin" -> "op"
                                       [] cc.pc = "op" -> "final"
                                       [] cc.pc = "final" -> "tempcert" ]
             ELSE GotoOut(cc)
    /\ othersUnchanged

cc_null_context_trap ==
    /\ cc.pc = "begin"
    /\ cc.pk11ctx = "NULL"
    /\ cc' = [ cc EXCEPT !.pc = "crashed" ]
    /\ othersUnchanged

\* cert = CERT_NewTempCertificate(...); if (!cert) goto out;
cc_tempcert(ok) ==
    /\ cc.pc = "tempcert"
    /\ cc' = IF ok
             THEN [ cc EXCEPT !.pc = "trust", !.cert = "cert", !.live = @ \cup { "cert" } ]
             ELSE GotoOut(cc)
    /\ othersUnchanged

\* CERT_DecodeTrustString and CERT_ChangeCertTrust, each != SECSuccess goes to out.
cc_trust(ok) ==
    /\ cc.pc \in { "trust", "change" }
    /\ cc' = IF ok
             THEN [ cc EXCEPT !.pc = IF cc.pc = "trust" THEN "change" ELSE "verify" ]
             ELSE GotoOut(cc)
    /\ othersUnchanged

\* result = SEC_PKCS7VerifyDetachedSignatureAtTime(...); status = FOUND on success.
cc_verify(result) ==
    /\ cc.pc = "verify"
    /\ cc' = [ cc EXCEPT !.pc = "out", !.status = IF result THEN "FOUND" ELSE "NOT_FOUND" ]
    /\ othersUnchanged

\* out: the four conditional destroys, and return status.
cc_out ==
    /\ cc.pc = "out"
    /\ cc' = [ cc EXCEPT !.pc = "returned", !.live = @ \ Released(cc) ]
    /\ othersUnchanged

NextCert ==
    \/ \E x509 \in BOOLEAN, now \in { 0, MaxTime } : cc_call(x509, now)
    \/ \E ok \in BOOLEAN : cc_decode1(ok)
    \/ \E ok \in BOOLEAN, certs \in CertLists(MaxEmbedded) : cc_times(ok, certs)
    \/ cc_no_signing_time
    \/ cc_bad_signing_time
    \/ \E t \in Times : cc_signing_time(t)
    \/ cc_midpoint
    \/ \E ok \in BOOLEAN : cc_decode2(ok)
    \/ \E ok \in BOOLEAN : cc_digest(ok)
    \/ \E ok \in BOOLEAN : cc_oid(ok)
    \/ \E ok \in BOOLEAN : cc_context(ok)
    \/ \E ok \in BOOLEAN : cc_digest_ops(ok)
    \/ cc_null_context_trap
    \/ \E ok \in BOOLEAN : cc_tempcert(ok)
    \/ \E ok \in BOOLEAN : cc_trust(ok)
    \/ \E result \in BOOLEAN : cc_verify(result)
    \/ cc_out

\* ------------------------------------------------------------ specification

Init ==
    /\ db = << >> /\ dbx = << >>
    /\ bootpc = "idle" /\ use_system_dbs = FALSE /\ bootlog = << >>
    /\ pc = "idle" /\ which = "DB" /\ dbl = 1 /\ ret = "NONE"
    /\ certlist = 0 /\ cert = 0 /\ dbsize = 0 /\ certcount = 0 /\ i = 0
    /\ hdr = [ sls |-> 0, shs |-> 0, ss |-> 0 ]
    /\ ncalls = 0 /\ consumed = 0 /\ sigtag = "none" /\ siglen = 0
    /\ hdrOob = FALSE /\ sigOob = FALSE
    /\ cc = CcIdle

Next ==
    \/ add_cert_db
    \/ add_cert_dbx
    \/ add_cert_file
    \/ \E u \in BOOLEAN : init_cert_db(u)
    \/ init_load
    \/ \E w \in { "DB", "DBX" } : check_db_hash(w)
    \/ walk_source
    \/ walk_head
    \/ walk_entry
    \/ walk_advance

Spec == Init /\ [][Next]_vars

\* check_db runs on: a sequential program takes its next step.
Walk == walk_source \/ walk_head \/ walk_entry \/ walk_advance

FairSpec == Spec /\ WF_vars(Walk)

\* The certificate predicate on its own, candidate after candidate.
SpecCert == Init /\ [][NextCert]_vars


\* -------------------------------------------------------------------- claims
\* The source walked by check_db.
Cur == Chain(which)[dbl]
Walking == pc \in { "head", "entry" }
\* The entry loop of the group at certlist is over and nothing matched.
GroupDone == pc = "entry" /\ ~(i < certcount)

\* A group header the specification calls malformed.
Malformed(h) == h.ss = 0 \/ h.shs >= h.sls

\* C1: when the walk reaches a group header, read from the source's bytes,
\* whose SignatureSize is 0 or whose SignatureHeaderSize is not less than its
\* SignatureListSize, it reports a malformed source: it never divides by the
\* entry size and never enters the group's entry loop.
C1_MalformedReported ==
    (pc \in { "entry", "crash" } /\ ~hdrOob) => ~Malformed(hdr)

\* C2: the inner loop of check_db, once at a group header, comes to the end of
\* the source, to a return or to a hard failure.
C2_WalkTerminates == (pc = "head") ~> (pc \in { "source", "ret", "crash" })

\* C3: when the entry loop of a well-formed group ends without a match, the
\* predicate was called (SignatureListSize - SignatureHeaderSize) /
\* SignatureSize times for the group; and the total sizes subtracted from
\* dbsize for a source never exceed its datalen.
C3_CountAndConsumed ==
    Walking =>
        /\ (GroupDone /\ ~hdrOob /\ ~Malformed(hdr)) =>
                ncalls = (hdr.sls - hdr.shs) \div hdr.ss
        /\ UGe(Cur.datalen, consumed)
        /\ consumed + dbsize = Cur.datalen

\* C3's case: the first group of FileTwoGroups (total size 68, no header skip,
\* entry size 20) was walked to its end without a match: 68 / 20 = 3 calls.
C3_Witness ==
    /\ GroupDone /\ ~hdrOob /\ ~Malformed(hdr)
    /\ Cur.data = FileTwoGroups /\ certlist = 0 /\ ncalls = 3

\* C4: no firmware variable shorter than its 4 attribute bytes becomes a
\* source of either chain.
C4_ShortEfiVarRejected ==
    \A w \in { "DB", "DBX" } : \A k \in 1..Len(Chain(w)) :
        Chain(w)[k].type = "DB_EFIVAR" => Chain(w)[k].size >= EfiAttrLen

\* C5: the source add_cert_file builds is walked as one group of one entry,
\* whose payload is the raw certificate.
C5_CertOneEntry ==
    (Walking /\ Cur.type = "DB_CERT") =>
        /\ certlist > 0 => dbsize = 0
        /\ GroupDone =>
              /\ ncalls = 1
              /\ siglen = Cur.size
              /\ Bytes(Cur.data, SigData(FirstCert(0, 0)), Cur.size) = Cur.map

\* The entries of a source as the specification reads them: group after group
\* from off, up to a truncated or malformed group; each entry by the type of
\* its group and its payload.
RECURSIVE ListEntries(_, _)
ListEntries(data, off) ==
    IF Len(data) - off < SizeofSigList THEN { }
    ELSE LET sls == RdU32(data, off + 16)
             shs == RdU32(data, off + 20)
             ss == RdU32(data, off + 24)
         IN  IF sls > Len(data) - off \/ sls < SizeofSigList \/ ss < SizeofGuid \/ shs >= sls
             THEN { }
             ELSE { [ tag |-> TagOf(Bytes(data, off, SizeofGuid)),
                      payload |-> Bytes(data, off + SizeofSigList + shs + k * ss + SizeofGuid,
                                        ss - SizeofGuid) ] :
                      k \in { j \in 0..(((sls - shs) \div ss) - 1) :
                                off + SizeofSigList + shs + (j + 1) * ss <= Len(data) } }
                  \cup ListEntries(data, off + sls)

HashMatches(e) ==
    \/ e.tag = "sha256" /\ Len(e.payload) >= Sha256Len
                       /\ SubSeq(e.payload, 1, Sha256Len) = Sha256Digest
    \/ e.tag = "sha1" /\ Len(e.payload) >= Sha1Len
                     /\ SubSeq(e.payload, 1, Sha1Len) = Sha1Digest

ChainHasMatch(w) ==
    \E k \in 1..Len(Chain(w)) : \E e \in ListEntries(Chain(w)[k].data, 0) : HashMatches(e)

\* C6: check_db_hash ends with FOUND exactly when some entry of some source of
\* the chain searched carries the SHA-256 or the SHA-1 digest under its type.
C6_FoundIffMatch ==
    (pc \in { "ret", "crash" }) => ((ret = "FOUND") <=> ChainHasMatch(which))

\* C7: when check_cert returns, every library object the invocation acquired
\* has been released.
C7_AllReleased == (cc.pc = "returned") => (cc.live = { })

\* The loads of init_cert_db in their order.
BootOrder ==
    << << "DB", DB_PATH >>, << "DB", MOK_PATH >>, << "DBX", DBX_PATH >>, << "DBX", MOKX_PATH >> >>
BootPcs == << "db", "mok", "dbx", "mokx", "done" >>
\* The firmware variables in chain w.
EfiVarsIn(w) == { k \in 1..Len(Chain(w)) : Chain(w)[k].type = "DB_EFIVAR" }
\* The loads logged for chain w that succeeded.
LoadedFor(w) == { k \in 1..Len(bootlog) : bootlog[k][1] = w /\ bootlog[k][3] = 0 }

\* C8: the loads of init_cert_db are attempted in the order allow, allow, deny,
\* deny; after a load that succeeded or failed with ENOENT the next one is
\* attempted; a load that failed otherwise ends the process before any later
\* load; when use_system_dbs is false no load is attempted and no firmware
\* variable is in a chain.
C8_BootOrder ==
    /\ Len(bootlog) <= 4
    /\ \A k \in 1..Len(bootlog) :
          /\ << bootlog[k][1], bootlog[k][2] >> = BootOrder[k]
          /\ k < Len(bootlog) => (bootlog[k][3] = 0 \/ bootlog[k][4] = "ENOENT")
    /\ bootpc # "idle" =>
          IF ~use_system_dbs THEN bootpc = "done" /\ bootlog = << >>
          ELSE IF bootlog = << >> THEN bootpc = "db"
          ELSE LET last == bootlog[Len(bootlog)]
               IN  IF last[3] < 0 /\ last[4] # "ENOENT"
                   THEN bootpc = "exit"
                   ELSE bootpc = BootPcs[Len(bootlog) + 1]
    /\ \A w \in { "DB", "DBX" } : Cardinality(EfiVarsIn(w)) = Cardinality(LoadedFor(w))

\* C8's case: the first load failed with ENOENT, the second succeeded, and the
\* third failed otherwise and ended the process.
C8_Witness ==
    /\ bootpc = "exit"
    /\ Len(bootlog) = 3
    /\ bootlog[1][4] = "ENOENT"
    /\ bootlog[2][3] = 0
    /\ bootlog[3][4] = "EACCES"

\* The step of check_cert that decodes the signing time t into atTime.
SigningStep == cc.pc = "sigtime" /\ cc'.pc = "midpoint" /\ cc'.eTime = "ok"
InWindow(t, e, l) == e <= t /\ t <= l

\* C9 as stated: a signing time inside the window makes both bounds the
\* signing time, one outside changes neither bound, and a window that was not
\* inverted is not inverted afterwards.
C9_OnlyInsideWindow ==
    [][SigningStep =>
          LET t == cc'.atTime
              e == cc.earlyNow
              l == cc.lateNow
          IN  /\ InWindow(t, e, l) => (cc'.earlyNow = t /\ cc'.lateNow = t)
              /\ ~InWindow(t, e, l) => (cc'.earlyNow = e /\ cc'.lateNow = l)
              /\ e <= l => cc'.earlyNow <= cc'.lateNow]_vars

\* C9 amended: each bound is tightened on its own: earlyNow becomes the later
\* of earlyNow and t, lateNow the earlier of lateNow and t. Inside the window
\* both become t; outside a window that was not inverted, the bound on the far
\* side of t moves to t, the other stays, and the window is inverted.
C9_EachBoundTightened ==
    [][SigningStep =>
          LET t == cc'.atTime
              e == cc.earlyNow
              l == cc.lateNow
          IN  /\ cc'.earlyNow = Max(e, t)
              /\ cc'.lateNow = Min(l, t)
              /\ InWindow(t, e, l) => (cc'.earlyNow = t /\ cc'.lateNow = t)
              /\ (e <= l /\ t > l) =>
                    (cc'.earlyNow = t /\ cc'.lateNow = l /\ cc'.lateNow < cc'.earlyNow)
              /\ (e <= l /\ t < e) =>
                    (cc'.earlyNow = e /\ cc'.lateNow = t /\ cc'.lateNow < cc'.earlyNow)]_vars

\* C9's case: a signing time was decoded that lies after a window that was
\* not inverted (the window was [notBefore, notAfter]), and inverted it.
C9_Witness ==
    /\ cc.pc = "midpoint"
    /\ cc.eTime = "ok"
    /\ cc.notBefore <= cc.notAfter
    /\ cc.atTime > cc.notAfter
    /\ cc.earlyNow = cc.atTime
    /\ cc.lateNow = cc.notAfter

\* C10: every header field the walk reads and every payload it hands to the
\* predicate lies in the bytes allocated for the source.
C10_WalkInBounds == ~hdrOob /\ ~sigOob

====
